---- MODULE Spec2Model ----
(***************************************************************************)
(* Model of src/app.py (OgiveSim): equal-width binning, the ascending and  *)
(* descending cumulative-percentage curves, the frequency table, the       *)
(* linear interpolation look-ups and the data acquisition with fallback.   *)
(*                                                                         *)
(* Numbers are exact rationals <<num, den>> in lowest terms with den > 0.  *)
(* <<0, 0>> stands for the IEEE NaN that 0/0 produces in numpy.            *)
(* Sequences are 1-based: edges[1] is the code's edges[0].                 *)
(***************************************************************************)
EXTENDS Integers, Sequences, FiniteSets, TLC

(* ---------------------------------------------------------------- bounds *)
MaxLen == 3
MaxBins == 5
MaxN == 3
MaxCount == 2

(* ------------------------------------------------------------- rationals *)
Abs(a) == IF a < 0 THEN -a ELSE a

RECURSIVE GCD(_, _)
GCD(a, b) == IF b = 0 THEN a ELSE GCD(b, a % b)

NaN == <<0, 0>>

IsNaN(a) == a[2] = 0

Rat(num, den) ==
    IF den = 0 THEN (IF num = 0 THEN NaN ELSE <<(IF num < 0 THEN -1 ELSE 1), 0>>)
    ELSE LET g == GCD(Abs(num), Abs(den))
             s == IF den < 0 THEN -1 ELSE 1
         IN  <<(s * num) \div g, (s * den) \div g>>

R(i) == <<i, 1>>

RAdd(a, b) == IF IsNaN(a) THEN a ELSE IF IsNaN(b) THEN b
              ELSE Rat(a[1] * b[2] + b[1] * a[2], a[2] * b[2])

RSub(a, b) == IF IsNaN(a) THEN a ELSE IF IsNaN(b) THEN b
              ELSE Rat(a[1] * b[2] - b[1] * a[2], a[2] * b[2])

RMul(a, b) == IF IsNaN(a) THEN a ELSE IF IsNaN(b) THEN b
              ELSE Rat(a[1] * b[1], a[2] * b[2])

RDiv(a, b) == IF IsNaN(a) THEN a ELSE IF IsNaN(b) THEN b
              ELSE Rat(a[1] * b[2], a[2] * b[1])

\* Comparisons with NaN are all false, as in IEEE arithmetic.
RLt(a, b) == ~IsNaN(a) /\ ~IsNaN(b) /\ a[1] * b[2] < b[1] * a[2]
RLe(a, b) == ~IsNaN(a) /\ ~IsNaN(b) /\ a[1] * b[2] <= b[1] * a[2]
RGt(a, b) == RLt(b, a)
RGe(a, b) == RLe(b, a)

\* float -> integer truncation of a non-negative quotient (astype(np.intp)).
RFloor(a) == a[1] \div a[2]

\* Round t to the nearest integer, ties to the even one (np.rint).
Rint(t) ==
    IF RGt(RSub(t, R(RFloor(t))), Rat(1, 2)) THEN RFloor(t) + 1
    ELSE IF RSub(t, R(RFloor(t))) = Rat(1, 2) /\ RFloor(t) % 2 # 0 THEN RFloor(t) + 1
    ELSE RFloor(t)

\* ndarray.round(2): nearest multiple of 1/100, ties to the even multiple.
Round2(a) == IF IsNaN(a) THEN a ELSE Rat(Rint(RMul(a, R(100))), 100)

(* ------------------------------------------------------ sequence helpers *)
RECURSIVE SumTo(_, _)
SumTo(s, i) == IF i = 0 THEN 0 ELSE s[i] + SumTo(s, i - 1)

Sum(s) == SumTo(s, Len(s))

\* ndarray.cumsum()
CumSum(s) == [i \in 1..Len(s) |-> SumTo(s, i)]

\* s[::-1]
Reverse(s) == [i \in 1..Len(s) |-> s[Len(s) + 1 - i]]

\* values.min() / values.max() of a non-empty array
ArrMin(s) == CHOOSE v \in {s[i] : i \in 1..Len(s)} :
                 \A j \in 1..Len(s) : RLe(v, s[j])
ArrMax(s) == CHOOSE v \in {s[i] : i \in 1..Len(s)} :
                 \A j \in 1..Len(s) : RGe(v, s[j])

(* ------------------------------------------------ np.histogram (line 31) *)
\* GetOuterEdges widening an all-equal range on the left only.
GetOuterEdgesOneSided(lo, hi) ==
    IF lo = hi THEN <<RSub(lo, Rat(1, 2)), hi>> ELSE <<lo, hi>>

\* numpy's _get_outer_edges: an all-equal range is widened by 0.5 on each side.
GetOuterEdges(lo, hi) ==
    IF lo = hi THEN <<RSub(lo, Rat(1, 2)), RAdd(hi, Rat(1, 2))>>
    ELSE <<lo, hi>>

\* np.linspace(first, last, k + 1): the k + 1 equally spaced bin edges.
Linspace(first, last, k) ==
    [i \in 1..(k + 1) |->
        RAdd(first, RDiv(RMul(R(i - 1), RSub(last, first)), R(k)))]

\* f_indices = ((a - first_edge) / norm_denom) * norm_numerator
FIndex(v, first, last, k) == RMul(RDiv(RSub(v, first), RSub(last, first)), R(k))

\* indices[indices == n_equal_bins] -= 1: the right end belongs to the last bin.
FoldLast(i, k) == IF i = k THEN i - 1 ELSE i

\* decrement = a < bin_edges[indices]
Decrement(v, bin_edges, i) == IF RLt(v, bin_edges[i + 1]) THEN i - 1 ELSE i

\* increment = (a >= bin_edges[indices + 1]) & (indices != n_equal_bins - 1)
Increment(v, bin_edges, i, k) ==
    IF RGe(v, bin_edges[i + 2]) /\ i # k - 1 THEN i + 1 ELSE i

\* BinIndex with the last bin left open on the right: the maximum gets index k.
BinIndexOpenLast(v, first, last, k, bin_edges) ==
    IF RFloor(FIndex(v, first, last, k)) = k THEN k
    ELSE Increment(v, bin_edges,
                   Decrement(v, bin_edges, RFloor(FIndex(v, first, last, k))), k)

\* The 0-based bin index np.histogram gives value v (uniform-bin path):
\* truncate the scaled offset, fold the right end into the last bin, then
\* correct against the edges themselves.
BinIndex(v, first, last, k, bin_edges) ==
    Increment(v, bin_edges,
              Decrement(v, bin_edges, FoldLast(RFloor(FIndex(v, first, last, k)), k)),
              k)

\* n = np.bincount(indices, minlength=k)
BinCount(values, first, last, k, bin_edges) ==
    [b \in 1..k |->
        Cardinality({i \in 1..Len(values) :
                        BinIndex(values[i], first, last, k, bin_edges) = b - 1})]

HistogramOver(values, first, last, k) ==
    [counts |-> BinCount(values, first, last, k, Linspace(first, last, k)),
     edges |-> Linspace(first, last, k)]

\* np.histogram(values, bins=k, range=(values.min(), values.max()))
Histogram(values, k) ==
    HistogramOver(values,
                  GetOuterEdges(ArrMin(values), ArrMax(values))[1],
                  GetOuterEdges(ArrMin(values), ArrMax(values))[2],
                  k)

(* ------------------------------------------------------ ogive (30 - 36) *)
Failure(kind) ==
    [err |-> kind, x_plot |-> <<>>, y_plot |-> <<>>, edges |-> <<>>, counts |-> <<>>]

\* cum_pct = 100 * cum_counts / cum_counts[-1]
CumPct(cum_counts) ==
    [i \in 1..Len(cum_counts) |->
        RDiv(R(100 * cum_counts[i]), R(cum_counts[Len(cum_counts)]))]

OgiveOf(h) ==
    [err |-> "ok",
     x_plot |-> <<h.edges[1]>> \o Tail(h.edges),
     y_plot |-> <<R(0)>> \o CumPct(CumSum(h.counts)),
     edges |-> h.edges,
     counts |-> h.counts]

ogive(values, bins) ==
    IF Len(values) = 0 THEN Failure("ValueError")        \* values.min() of an empty array
    ELSE IF bins < 1 THEN Failure("ValueError")          \* np.histogram: bins must be positive
    ELSE OgiveOf(Histogram(values, bins))

(* -------------------------------------------- ogive_inverse (72 - 80) *)
\* GtCore normalised by the last reverse cumulative count instead of the first.
GtCoreByLast(rev_cum) ==
    [i \in 1..Len(rev_cum) |-> RDiv(R(100 * rev_cum[i]), R(rev_cum[Len(rev_cum)]))]

\* y_gt_core = 100 * rev_cum / rev_cum[0]; numpy's 0/0 is NaN, not an exception.
GtCore(rev_cum) ==
    [i \in 1..Len(rev_cum) |-> RDiv(R(100 * rev_cum[i]), R(rev_cum[1]))]

\* RevCum without the first reversal.
RevCumForward(counts) == Reverse(CumSum(counts))

\* rev_cum = counts[::-1].cumsum()[::-1]
RevCum(counts) == Reverse(CumSum(Reverse(counts)))

ogive_inverse(counts, edges) ==
    [err |-> "ok",
     x_gt |-> SubSeq(edges, 1, Len(edges) - 1) \o <<edges[Len(edges)]>>,
     y_gt |-> GtCore(RevCum(counts)) \o <<R(0)>>]

(* ------------------------------------------ frequency_table (39 - 60) *)
\* rel_freq = counts / counts.sum() * 100
RelFreq(counts) ==
    [i \in 1..Len(counts) |-> RMul(RDiv(R(counts[i]), R(Sum(counts))), R(100))]

\* PctAcum computed from the counts instead of the cumulative counts.
PctAcumNotCumulative(counts) ==
    [i \in 1..Len(counts) |-> RMul(RDiv(R(counts[i]), R(Sum(counts))), R(100))]

\* pct_acum = cum_freq / counts.sum() * 100
PctAcum(counts) ==
    [i \in 1..Len(counts) |->
        RMul(RDiv(R(CumSum(counts)[i]), R(Sum(counts))), R(100))]

\* "[li, ls)" with two decimals, the last one "[li, ls]".
Intervalos(edges) ==
    [i \in 1..(Len(edges) - 1) |->
        [lo |-> Round2(edges[i]), hi |-> Round2(edges[i + 1]),
         closed |-> (i = Len(edges) - 1)]]

frequency_table(values, edges, counts) ==
    [err |-> "ok",
     rows |-> [i \in 1..Len(counts) |->
                 [Intervalo |-> Intervalos(edges)[i],
                  Frecuencia |-> counts[i],
                  FrecuenciaRelativa |-> Round2(RelFreq(counts)[i]),
                  FrecuenciaAcumulada |-> CumSum(counts)[i],
                  PctDelTotal |-> Round2(RelFreq(counts)[i]),
                  PctAcumulado |-> Round2(PctAcum(counts)[i])]]]

(* ------------------------------------------------- np.interp (64, 68) *)
\* numpy's binary_search_with_guess: -1 below arr[0], len above arr[len-1]
\* (tested in that order, the last element first), otherwise the 0-based
\* index before the first element that exceeds key.
RECURSIVE ScanFrom(_, _, _)
ScanFrom(key, arr, i) ==
    IF i < Len(arr) /\ RGe(key, arr[i + 1]) THEN ScanFrom(key, arr, i + 1) ELSE i

\* BinarySearch without the two out-of-range tests.
BinarySearchNoClamp(key, arr) ==
    IF RLt(key, arr[1]) THEN 0 ELSE ScanFrom(key, arr, 1) - 1

BinarySearch(key, arr) ==
    IF RGt(key, arr[Len(arr)]) THEN Len(arr)
    ELSE IF RLt(key, arr[1]) THEN -1
    ELSE ScanFrom(key, arr, 1) - 1

\* np.interp(x, xp, fp) for a scalar x: no check that xp is increasing.
Interp(x, xp, fp) ==
    LET j == BinarySearch(x, xp)
    IN  IF j = -1 THEN fp[1]
        ELSE IF j = Len(xp) THEN fp[Len(fp)]
        ELSE IF j = Len(xp) - 1 THEN fp[j + 1]
        ELSE IF xp[j + 1] = x THEN fp[j + 1]
        ELSE LET slope == RDiv(RSub(fp[j + 2], fp[j + 1]), RSub(xp[j + 2], xp[j + 1]))
             IN  RAdd(RMul(slope, RSub(x, xp[j + 1])), fp[j + 1])

interp_percentile_at(value, x_plot, y_plot) == Interp(value, x_plot, y_plot)

\* interp_value_at with the two axes not swapped.
interp_value_at_unswapped(percentile, x_plot, y_plot) == Interp(percentile, x_plot, y_plot)

interp_value_at(percentile, x_plot, y_plot) == Interp(percentile, y_plot, x_plot)

(* -------------------------- get_data_from_sheet_or_simulated (8 - 26) *)
\* df[0].dropna(): blank cells are dropped.
RECURSIVE DropNa(_)
DropNa(cells) ==
    IF cells = <<>> THEN <<>>
    ELSE IF Head(cells).kind = "blank" THEN DropNa(Tail(cells))
    ELSE <<Head(cells)>> \o DropNa(Tail(cells))

\* np.clip(x, 0, 100)
Clip(x) == IF RLt(x, R(0)) THEN R(0) ELSE IF RGt(x, R(100)) THEN R(100) ELSE x

\* int(n * 0.7)
Part1Len(n) == (n * 7) \div 10

\* The except branch: part1 and part2 are the generator's draws, clipped.
Simulated(n, draws) ==
    LET part1 == SubSeq(draws, 1, Part1Len(n))
        part2 == SubSeq(draws, Part1Len(n) + 1, Part1Len(n) + (n - Len(part1)))
        both == part1 \o part2
    IN  [i \in 1..Len(both) |-> Clip(both[i])]

\* ReadSheet without the test for an empty column.
ReadSheetNoEmptyCheck(sh) ==
    IF sh.status # "ok" THEN [err |-> "URLError", values |-> <<>>]
    ELSE IF \E i \in 1..Len(DropNa(sh.cells)) : DropNa(sh.cells)[i].kind = "text"
        THEN [err |-> "ValueError", values |-> <<>>]
    ELSE [err |-> "ok",
          values |-> [i \in 1..Len(DropNa(sh.cells)) |-> DropNa(sh.cells)[i].val]]

\* The try branch: "ok" with the values, or the exception that sends the
\* function to the fallback.
ReadSheet(sh) ==
    IF sh.status # "ok" THEN [err |-> "URLError", values |-> <<>>]        \* pd.read_csv raises
    ELSE LET kept == DropNa(sh.cells)
         IN  IF \E i \in 1..Len(kept) : kept[i].kind = "text"
                 THEN [err |-> "ValueError", values |-> <<>>]              \* astype(float)
             ELSE IF Len(kept) = 0
                 THEN [err |-> "ValueError", values |-> <<>>]              \* "La hoja esta vacia"
             ELSE [err |-> "ok", values |-> [i \in 1..Len(kept) |-> kept[i].val]]

get_data_from_sheet_or_simulated(sh, n, draws) ==
    LET got == ReadSheet(sh)
    IN  IF got.err = "ok" THEN <<got.values, TRUE>>
        ELSE <<Simulated(n, draws), FALSE>>

(* ------------------------------------------------------------ the inputs *)
Vals == {R(0), R(1), R(4)}

SeqsUpTo(S, m) == UNION {[1..l -> S] : l \in 1..m}

\* The two samples section 8 of the specification names.
ScenarioSample ==
    <<R(10), R(10), R(20), R(20), R(30), R(30), R(40), R(40)>>
DegenerateSample == <<R(50), R(50), R(50)>>

Samples == SeqsUpTo(Vals, MaxLen) \cup {ScenarioSample, DegenerateSample}

Cells == {[kind |-> "num", val |-> v] : v \in {R(0), R(4)}}
            \cup {[kind |-> "blank", val |-> NaN], [kind |-> "text", val |-> NaN]}

Sheets == {[status |-> "unreachable", cells |-> <<>>]}
            \cup {[status |-> "ok", cells |-> c] : c \in {<<>>} \cup SeqsUpTo(Cells, MaxLen)}

\* What the random generator can hand back: below, inside and above [0, 100].
Draws == {R(-20), R(50), R(130)}

Mid(a, b) == RDiv(RAdd(a, b), R(2))

\* Query points of a lookup axis: outside on both sides, every point, every midpoint.
QueryPoints(axis) ==
    {RSub(axis[1], R(1)), RAdd(axis[Len(axis)], R(1))}
        \cup {axis[i] : i \in 1..Len(axis)}
        \cup {Mid(axis[i], axis[i + 1]) : i \in 1..(Len(axis) - 1)}

Percentages == {R(-10), R(0), R(10), R(50), R(75), R(100), R(110)}

NoQuery == [op |-> "none", v |-> NaN, p |-> NaN, r |-> NaN]

(* ------------------------------------------------------------- the state *)
VARIABLES pc, sheet, n, values, from_sheet, bins, x_plot, y_plot, edges, counts,
          err, freq_table, x_gt, y_gt, q

vars == <<pc, sheet, n, values, from_sheet, bins, x_plot, y_plot, edges, counts,
          err, freq_table, x_gt, y_gt, q>>

NoSheet == [status |-> "none", cells |-> <<>>]

NoData == sheet = NoSheet /\ n = 0 /\ from_sheet = FALSE

NoBins == bins = 0 /\ edges = <<>> /\ counts = <<>>

NoResults ==
    /\ x_plot = <<>> /\ y_plot = <<>> /\ err = "none" /\ freq_table = <<>>
    /\ x_gt = <<>> /\ y_gt = <<>> /\ q = NoQuery

(* ------------------ Spec: the core applied to a non-empty sample (105-117) *)
Init ==
    /\ pc = "start"
    /\ values \in Samples
    /\ NoData /\ NoBins /\ NoResults

\* line 105: x_plot, y_plot, edges, counts = ogive(data, bins)
Ogive ==
    /\ pc = "start"
    /\ \E k \in 1..MaxBins :
         LET res == ogive(values, k)
         IN  /\ bins' = k
             /\ err' = res.err
             /\ x_plot' = res.x_plot /\ y_plot' = res.y_plot
             /\ edges' = res.edges /\ counts' = res.counts
             /\ pc' = IF res.err = "ok" THEN "binned" ELSE "failed"
    /\ UNCHANGED <<sheet, n, values, from_sheet, freq_table, x_gt, y_gt, q>>

\* line 108: freq_table = frequency_table(data, edges, counts)
FrequencyTable ==
    /\ pc = "binned"
    /\ LET res == frequency_table(values, edges, counts)
       IN  /\ err' = res.err
           /\ freq_table' = res.rows
    /\ pc' = "tabled"
    /\ UNCHANGED <<sheet, n, values, from_sheet, bins, x_plot, y_plot, edges, counts,
                   x_gt, y_gt, q>>

\* line 111: x_gt, y_gt = ogive_inverse(counts, edges)
OgiveInverse ==
    /\ pc = "tabled"
    /\ LET res == ogive_inverse(counts, edges)
       IN  /\ err' = res.err
           /\ x_gt' = res.x_gt /\ y_gt' = res.y_gt
    /\ pc' = "curves"
    /\ UNCHANGED <<sheet, n, values, from_sheet, bins, x_plot, y_plot, edges, counts,
                   freq_table, q>>

\* line 115: interp_percentile_at(pass_mark, x_plot, y_plot)
InterpPercentileAt ==
    /\ pc = "curves"
    /\ \E v \in QueryPoints(x_plot) :
         q' = [op |-> "percentile", v |-> v,
               p |-> interp_percentile_at(v, x_plot, y_plot), r |-> NaN]
    /\ pc' = "have_percentile"
    /\ UNCHANGED <<sheet, n, values, from_sheet, bins, x_plot, y_plot, edges, counts,
                   err, freq_table, x_gt, y_gt>>

\* The percentile just looked up, sent back through interp_value_at.
RoundTrip ==
    /\ pc = "have_percentile"
    /\ q' = [q EXCEPT !.op = "roundtrip", !.r = interp_value_at(q.p, x_plot, y_plot)]
    /\ pc' = "done"
    /\ UNCHANGED <<sheet, n, values, from_sheet, bins, x_plot, y_plot, edges, counts,
                   err, freq_table, x_gt, y_gt>>

\* line 116: interp_value_at(75, x_plot, y_plot)
InterpValueAt ==
    /\ pc = "curves"
    /\ \E p \in Percentages \cup QueryPoints(y_plot) :
         q' = [op |-> "value", v |-> NaN, p |-> p,
               r |-> interp_value_at(p, x_plot, y_plot)]
    /\ pc' = "done"
    /\ UNCHANGED <<sheet, n, values, from_sheet, bins, x_plot, y_plot, edges, counts,
                   err, freq_table, x_gt, y_gt>>

\* interp_value_at applied to the descending curve (x_gt, y_gt).
InterpValueAtInverse ==
    /\ pc = "curves"
    /\ \E p \in QueryPoints(Reverse(y_gt)) :
         q' = [op |-> "value_gt", v |-> NaN, p |-> p,
               r |-> interp_value_at(p, x_gt, y_gt)]
    /\ pc' = "done"
    /\ UNCHANGED <<sheet, n, values, from_sheet, bins, x_plot, y_plot, edges, counts,
                   err, freq_table, x_gt, y_gt>>

\* line 117: above_pct = np.interp(pass_mark, x_gt, y_gt)
AbovePct ==
    /\ pc = "curves"
    /\ \E v \in QueryPoints(x_gt) :
         q' = [op |-> "above", v |-> v, p |-> Interp(v, x_gt, y_gt), r |-> NaN]
    /\ pc' = "done"
    /\ UNCHANGED <<sheet, n, values, from_sheet, bins, x_plot, y_plot, edges, counts,
                   err, freq_table, x_gt, y_gt>>

Next ==
    \/ Ogive
    \/ FrequencyTable
    \/ OgiveInverse
    \/ InterpPercentileAt
    \/ RoundTrip
    \/ InterpValueAt
    \/ InterpValueAtInverse
    \/ AbovePct

Spec == Init /\ [][Next]_vars

(* ------- SpecDirect: the three functions called on arbitrary arguments *)
DirectValues == {<<>>, <<R(0)>>, <<R(0), R(4)>>}

InitDirect ==
    /\ pc = "direct"
    /\ values \in DirectValues
    /\ bins \in 1..MaxBins
    /\ counts \in [1..bins -> 0..MaxCount]
    /\ edges = Linspace(R(0), R(bins), bins)
    /\ NoData /\ NoResults

DirectOgive ==
    /\ pc = "direct"
    /\ LET res == ogive(values, bins)
       IN  /\ err' = res.err
           /\ x_plot' = res.x_plot /\ y_plot' = res.y_plot
           /\ edges' = res.edges /\ counts' = res.counts
    /\ pc' = "called_ogive"
    /\ UNCHANGED <<sheet, n, values, from_sheet, bins, freq_table, x_gt, y_gt, q>>

DirectOgiveInverse ==
    /\ pc = "direct"
    /\ LET res == ogive_inverse(counts, edges)
       IN  /\ err' = res.err
           /\ x_gt' = res.x_gt /\ y_gt' = res.y_gt
    /\ pc' = "called_ogive_inverse"
    /\ UNCHANGED <<sheet, n, values, from_sheet, bins, x_plot, y_plot, edges, counts,
                   freq_table, q>>

DirectFrequencyTable ==
    /\ pc = "direct"
    /\ LET res == frequency_table(values, edges, counts)
       IN  /\ err' = res.err
           /\ freq_table' = res.rows
    /\ pc' = "called_frequency_table"
    /\ UNCHANGED <<sheet, n, values, from_sheet, bins, x_plot, y_plot, edges, counts,
                   x_gt, y_gt, q>>

NextDirect ==
    \/ DirectOgive
    \/ DirectOgiveInverse
    \/ DirectFrequencyTable

SpecDirect == InitDirect /\ [][NextDirect]_vars

(* --------------------------- SpecData: the data acquisition (line 98) *)
InitData ==
    /\ pc = "acquire"
    /\ sheet \in Sheets
    /\ n \in 1..MaxN
    /\ values = <<>> /\ from_sheet = FALSE
    /\ NoBins /\ NoResults

\* line 98: data, from_sheet = get_data_from_sheet_or_simulated(SHEET_ID)
GetData ==
    /\ pc = "acquire"
    /\ \E draws \in [1..n -> Draws] :
         LET res == get_data_from_sheet_or_simulated(sheet, n, draws)
         IN  /\ values' = res[1]
             /\ from_sheet' = res[2]
    /\ pc' = "acquired"
    /\ UNCHANGED <<sheet, n, bins, x_plot, y_plot, edges, counts, err, freq_table,
                   x_gt, y_gt, q>>

NextData == GetData

SpecData == InitData /\ [][NextData]_vars

(* ================================================================ claims *)
Last(s) == s[Len(s)]

\* Bin b of the current edges: [edges[b], edges[b+1]), the last one closed.
InBin(v, b) ==
    /\ RLe(edges[b], v)
    /\ IF b = bins THEN RLe(v, edges[b + 1]) ELSE RLt(v, edges[b + 1])

NonDecreasing(y) == \A i \in 1..(Len(y) - 1) : RLe(y[i], y[i + 1])
NonIncreasing(y) == \A i \in 1..(Len(y) - 1) : RGe(y[i], y[i + 1])
StrictlyIncreasing(y) == \A i \in 1..(Len(y) - 1) : RLt(y[i], y[i + 1])

BinWidth == RDiv(RSub(Last(edges), edges[1]), R(bins))

RAbs(a) == IF a[1] < 0 THEN <<-a[1], a[2]>> ELSE a

\* Length of the longest run of consecutive empty bins.
EmptyRunAt(c, i, j) == \A b \in i..j : c[b] = 0
LongestEmptyRun(c) ==
    LET runs == {j - i + 1 : <<i, j>> \in
                    {ij \in (1..Len(c)) \X (1..Len(c)) :
                        ij[1] <= ij[2] /\ EmptyRunAt(c, ij[1], ij[2])}}
    IN  IF runs = {} THEN 0 ELSE CHOOSE m \in runs : \A r \in runs : r <= m

\* The state each call returns into; what it wrote is not changed afterwards.
Binned == pc = "binned"
Tabled == pc = "tabled"
Curved == pc = "curves"

InRange(v) == RLe(edges[1], v) /\ RLe(v, Last(edges))

\* C1: after ogive(values, bins=k) on a non-empty sample there are k counts
\* over k+1 edges, counts[b] is the number of sample values in bin b
\* ([edge_b, edge_b+1), the last bin closed on the right), every value lies in
\* exactly one bin, and sum(counts) = len(values).
C1_EveryValueCountedOnce ==
    Binned =>
        /\ Len(counts) = bins /\ Len(edges) = bins + 1
        /\ \A b \in 1..bins :
             counts[b] = Cardinality({i \in 1..Len(values) : InBin(values[i], b)})
        /\ \A i \in 1..Len(values) :
             Cardinality({b \in 1..bins : InBin(values[i], b)}) = 1
        /\ Sum(counts) = Len(values)

C1_Witness ==
    /\ pc = "binned" /\ bins = 4 /\ Len(values) = 3
    /\ \E i \in 1..Len(values) : values[i] = Last(edges)
    /\ counts[4] >= 1 /\ \E b \in 1..bins : counts[b] = 0

\* C2: the ascending curve has k+1 points, y non-decreasing from 0 to 100;
\* the descending curve has k+1 points, y non-increasing from 100 to 0.
C2_CurvesMonotoneAndSpan ==
    Curved =>
        /\ Len(x_plot) = bins + 1 /\ Len(y_plot) = bins + 1
        /\ NonDecreasing(y_plot)
        /\ y_plot[1] = R(0) /\ y_plot[bins + 1] = R(100)
        /\ Len(x_gt) = bins + 1 /\ Len(y_gt) = bins + 1
        /\ NonIncreasing(y_gt)
        /\ y_gt[1] = R(100) /\ y_gt[bins + 1] = R(0)

C2_Witness ==
    /\ pc = "curves" /\ bins = 3
    /\ RLt(R(0), y_plot[2]) /\ RLt(y_plot[2], y_plot[3]) /\ RLt(y_plot[3], R(100))
    /\ RGt(y_gt[2], y_gt[3])

\* C3 (as stated): for v inside [edges[0], edges[last]] the round trip
\* interp_value_at(interp_percentile_at(v)) differs from v by at most one bin
\* width, whatever the sample and bin count.
C3_RoundTripWithinOneBin ==
    (q.op = "roundtrip" /\ InRange(q.v)) =>
        RLe(RAbs(RSub(q.r, q.v)), BinWidth)

\* C3 (amended): the round trip differs from v by at most max(1, L) bin
\* widths, L the length of the longest run of consecutive empty bins; so it is
\* within one bin width whenever no two adjacent bins are both empty.
C3_RoundTripWithinEmptyRun ==
    (q.op = "roundtrip" /\ InRange(q.v)) =>
        RLe(RAbs(RSub(q.r, q.v)),
            RMul(R(IF LongestEmptyRun(counts) > 1 THEN LongestEmptyRun(counts) ELSE 1),
                 BinWidth))

C3_Witness ==
    /\ q.op = "roundtrip" /\ InRange(q.v)
    /\ LongestEmptyRun(counts) = 2
    /\ RSub(q.r, q.v) = RMul(R(2), BinWidth)

\* C4: interp_value_at on the descending curve returns x_gt[i] at every point
\* whose y differs from its neighbours', and for p strictly between two
\* adjacent y-values a value between the two corresponding x-values.
C4_DescendingLookupFollowsCurve ==
    q.op = "value_gt" =>
        /\ \A i \in 1..Len(y_gt) :
             ( /\ q.p = y_gt[i]
               /\ (i > 1 => y_gt[i - 1] # y_gt[i])
               /\ (i < Len(y_gt) => y_gt[i + 1] # y_gt[i]) )
             => q.r = x_gt[i]
        /\ \A i \in 1..(Len(y_gt) - 1) :
             (RLt(y_gt[i + 1], q.p) /\ RLt(q.p, y_gt[i]))
             => (RLe(x_gt[i], q.r) /\ RLe(q.r, x_gt[i + 1]))

\* C5: on the ascending curve interp_percentile_at is 0 below edges[0] and 100
\* above edges[last]; interp_value_at stays inside [edges[0], edges[last]], is
\* edges[0] for p < 0 and edges[last] for p > 100.
C5_LookupsClamp ==
    /\ q.op \in {"percentile", "roundtrip"} =>
         /\ RLt(q.v, edges[1]) => q.p = R(0)
         /\ RGt(q.v, Last(edges)) => q.p = R(100)
    /\ q.op = "value" =>
         /\ InRange(q.r)
         /\ RLt(q.p, R(0)) => q.r = edges[1]
         /\ RGt(q.p, R(100)) => q.r = Last(edges)

C5_Witness ==
    /\ q.op = "value" /\ RGt(q.p, R(100)) /\ q.r = Last(edges) /\ bins = 3

\* C6: whenever the total count is zero, ogive, ogive_inverse and
\* frequency_table each signal an error to the caller.
C6_ZeroTotalReported ==
    /\ (pc = "called_ogive" /\ Len(values) = 0) => err # "ok"
    /\ (pc = "called_ogive_inverse" /\ Sum(counts) = 0) => err # "ok"
    /\ (pc = "called_frequency_table" /\ Sum(counts) = 0) => err # "ok"

\* C7: frequency_table has one row per bin in bin order, 'Frecuencia' sums to
\* len(sample), 'Frecuencia acumulada' is the running sum of the counts
\* (non-decreasing, last row len(sample)) and the last '% acumulado' is 100.00.
C7_FrequencyTableTotals ==
    Tabled =>
        /\ Len(freq_table) = bins
        /\ \A i \in 1..bins :
             /\ freq_table[i].Frecuencia = counts[i]
             /\ freq_table[i].Intervalo.lo = Round2(edges[i])
             /\ freq_table[i].Intervalo.hi = Round2(edges[i + 1])
             /\ freq_table[i].FrecuenciaAcumulada = SumTo(counts, i)
        /\ Sum([i \in 1..bins |-> freq_table[i].Frecuencia]) = Len(values)
        /\ \A i \in 1..(bins - 1) :
             freq_table[i].FrecuenciaAcumulada <= freq_table[i + 1].FrecuenciaAcumulada
        /\ freq_table[bins].FrecuenciaAcumulada = Len(values)
        /\ freq_table[bins].PctAcumulado = R(100)

C7_Witness ==
    /\ pc = "tabled" /\ bins = 3 /\ Len(values) = 3
    /\ freq_table[1].PctAcumulado = Rat(6667, 100)
    /\ freq_table[2].Frecuencia = 0 /\ freq_table[2].FrecuenciaAcumulada = 2
    /\ freq_table[3].FrecuenciaRelativa = Rat(3333, 100)
    /\ freq_table[3].PctAcumulado = R(100)

\* C8: for an all-equal sample ogive does not fail: it returns k+1 strictly
\* increasing edges running from min - 0.5 to max + 0.5 (the fixed fallback
\* width 1) and counts every sample value.
C8_DegenerateSampleUsesFallbackWidth ==
    (pc \in {"binned", "failed"} /\ ArrMin(values) = ArrMax(values)) =>
        /\ pc # "failed"
        /\ Len(edges) = bins + 1
        /\ StrictlyIncreasing(edges)
        /\ edges[1] = RSub(ArrMin(values), Rat(1, 2))
        /\ Last(edges) = RAdd(ArrMax(values), Rat(1, 2))
        /\ BinWidth = Rat(1, bins)
        /\ Sum(counts) = Len(values)

C8_Witness ==
    /\ pc = "binned" /\ values = DegenerateSample /\ bins = 5
    /\ counts = <<0, 0, 3, 0, 0>>
    /\ edges[1] = Rat(99, 2) /\ edges[6] = Rat(101, 2)

\* The numeric cells of the sheet, in order.
NumericCells(cells) ==
    [i \in 1..Len(DropNa(cells)) |-> DropNa(cells)[i].val]

SheetUsable ==
    /\ sheet.status = "ok"
    /\ \A i \in 1..Len(sheet.cells) : sheet.cells[i].kind # "text"
    /\ \E i \in 1..Len(sheet.cells) : sheet.cells[i].kind = "num"

\* C9: get_data_from_sheet_or_simulated returns (values, True) exactly when the
\* sheet was read and parsed and held at least one number, and then values are
\* the sheet's numbers; otherwise it returns (fallback, False) with exactly n
\* values, each within [0, 100]; the sample is never empty.
C9_AcquisitionFallsBack ==
    pc = "acquired" =>
        /\ from_sheet <=> SheetUsable
        /\ from_sheet => values = NumericCells(sheet.cells)
        /\ ~from_sheet =>
             /\ Len(values) = n
             /\ \A i \in 1..Len(values) : RLe(R(0), values[i]) /\ RLe(values[i], R(100))
        /\ Len(values) >= 1

C9_Witness ==
    /\ pc = "acquired" /\ ~from_sheet /\ sheet.status = "ok" /\ Len(sheet.cells) = 2
    /\ n = 3 /\ values = <<R(0), R(50), R(100)>>

\* C10: at every edge i the ascending y is 100 * sum(counts[0..i-1]) / N and
\* the descending y is 100 * sum(counts[i..k-1]) / N, so the two sum to 100;
\* sample [10,10,20,20,30,30,40,40] with 4 bins gives edges
\* [10,17.5,25,32.5,40], counts [2,2,2,2], ascending y [0,25,50,75,100],
\* descending y [100,75,50,25,0], percentile at 25 = 50 and value at 50 = 25.
C10_CurvesAreCumulativeShares ==
    /\ Curved =>
         \A i \in 0..bins :
             /\ y_plot[i + 1] = Rat(100 * SumTo(counts, i), Len(values))
             /\ y_gt[i + 1] = Rat(100 * (Sum(counts) - SumTo(counts, i)), Len(values))
             /\ RAdd(y_plot[i + 1], y_gt[i + 1]) = R(100)
    /\ (values = ScenarioSample /\ bins = 4 /\ pc \in {"curves", "have_percentile", "done"}) =>
             /\ edges = <<R(10), Rat(35, 2), R(25), Rat(65, 2), R(40)>>
             /\ counts = <<2, 2, 2, 2>>
             /\ y_plot = <<R(0), R(25), R(50), R(75), R(100)>>
             /\ y_gt = <<R(100), R(75), R(50), R(25), R(0)>>
             /\ (q.op = "percentile" /\ q.v = R(25)) => q.p = R(50)
             /\ (q.op = "value" /\ q.p = R(50)) => q.r = R(25)

C10_Witness ==
    /\ values = ScenarioSample /\ bins = 4
    /\ q.op = "value" /\ q.p = R(50) /\ q.r = R(25)
    /\ y_gt = <<R(100), R(75), R(50), R(25), R(0)>>

====
